---- MODULE Spec2Model ----
(***************************************************************************)
(* A model of the tutor application (src/tutor): the request handlers of   *)
(* views.py and the background task of tasks.py, acting on the rows of the *)
(* relational store.                                                       *)
(*                                                                         *)
(* The state is the content of the tables plus the generation attempts     *)
(* that have read their lesson and are waiting for the generation          *)
(* collaborator.  A handler that makes no collaborator call between its    *)
(* reads and its writes is one action.  lesson_detail and                  *)
(* generate_lesson_content read the lesson, call the collaborator (a slow  *)
(* network call during which other requests run) and then write, so each   *)
(* is two actions: <name>_begin up to the call, <name>_finish from the     *)
(* collaborator's answer to the response.                                  *)
(*                                                                         *)
(* Titles, descriptions and question texts are written once and never      *)
(* read by any handler decision; the rows of the model leave them out.     *)
(* A quiz score is kept as the exact fraction num/den.                     *)
(***************************************************************************)
EXTENDS Integers, Sequences, FiniteSets, Bags, TLC

VARIABLES
    course,     \* Course rows         [id, created_by]
    module,     \* Module rows         [id, course, order]
    lesson,     \* Lesson rows         [id, module, order, content]
    quiz,       \* Quiz rows           [id, lesson]
    question,   \* Question rows       [id, quiz, order]
    choice,     \* Choice rows         [id, question, choice_text, is_correct]
    progress,   \* UserProgress rows   [user, lesson, completed]
    attempt,    \* UserQuizAttempt rows in insertion order [user, quiz, score]
    nextId,     \* the next auto-increment id of each table
    inflight,   \* bag of generation attempts waiting for the collaborator
    response    \* what the step just taken returned ([op |-> "none"]: nothing yet)

vars == <<course, module, lesson, quiz, question, choice, progress, attempt,
          nextId, inflight, response>>

db == <<course, module, lesson, quiz, question, choice, progress, attempt>>

-----------------------------------------------------------------------------
(* Bounds of the model.                                                    *)

\* courses created over a run (course ids are 1..MaxCourses)
MaxCourses == 2
\* generation attempts that wait for the collaborator at the same time
MaxInFlight == 2
\* quiz attempts recorded over a run
MaxAttempts == 2
\* lesson ids a run hands out
LessonIds == 1 .. 2

Users == {"u1", "u2"}

-----------------------------------------------------------------------------
(* Strings the handlers write.                                             *)

\* Lesson.content of a lesson not generated yet (views.py:80)
Empty == ""
\* the message lesson_detail shows when generation fails (views.py:162)
FailedMessage == "Failed to generate lesson content."
\* the message generate_lesson_content stores when generation fails (tasks.py:59)
TaskErrorMessage == "### Error Generating Content"

NoResponse == [op |-> "none"]

-----------------------------------------------------------------------------
(* The schema: relations between the tables.                               *)

RECURSIVE SumTo(_, _)
SumTo(f, n) == IF n = 0 THEN 0 ELSE f[n] + SumTo(f, n - 1)

Has(obj, key) == key \in DOMAIN obj

CourseIdsIn(cs) == {c.id : c \in cs}
ModulesOfCourses(cids) == {m \in module : m.course \in cids}
LessonsOfModules(ms) == {l \in lesson : l.module \in {m.id : m \in ms}}
QuizzesOfLessons(ls) == {q \in quiz : q.lesson \in {l.id : l \in ls}}
QuestionsOfQuizzes(qs) == {q \in question : q.quiz \in {z.id : z \in qs}}
ChoicesOfQuestions(qs) == {c \in choice : c.question \in {q.id : q \in qs}}
ProgressOfLessons(ls) == {p \in progress : p.lesson \in {l.id : l \in ls}}

LessonsOfCourse(cid) == LessonsOfModules(ModulesOfCourses({cid}))

LessonExists(lid) == \E l \in lesson : l.id = lid
LessonRow(lid) == CHOOSE l \in lesson : l.id = lid
QuizOfLesson(lid) == {q \in quiz : q.lesson = lid}

\* Model.delete() of Course rows: the foreign keys cascade down to the choices,
\* and to the progress rows and attempts that point at a deleted lesson or quiz.
CascadeDelete(cids) ==
    LET ms == ModulesOfCourses(cids)
        ls == LessonsOfModules(ms)
        zs == QuizzesOfLessons(ls)
        qs == QuestionsOfQuizzes(zs)
    IN  /\ course' = {c \in course : c.id \notin cids}
        /\ module' = module \ ms
        /\ lesson' = lesson \ ls
        /\ quiz' = quiz \ zs
        /\ question' = question \ qs
        /\ choice' = choice \ ChoicesOfQuestions(qs)
        /\ progress' = progress \ ProgressOfLessons(ls)
        /\ attempt' = SelectSeq(attempt, LAMBDA a : a.quiz \notin {z.id : z \in zs})

-----------------------------------------------------------------------------
(* create_course                                                           *)

InvalidJson == [valid |-> FALSE, data |-> <<>>]
JsonBody(obj) == [valid |-> TRUE, data |-> obj]

\* request bodies of create_course
CourseBodies == {InvalidJson, JsonBody(<<>>), JsonBody([topic |-> ""]),
                 JsonBody([topic |-> "T"])}

GoodModule == [title |-> "M", lessons |-> <<"L">>]
NoLessonsModule == [title |-> "M", lessons |-> <<>>]
BadModule == [title |-> "M"]

\* what the collaborator answers to the outline prompt
CourseAnswers ==
    {[kind |-> "raise"], [kind |-> "text"],
     [kind |-> "json", obj |-> [course_title |-> "C", modules |-> <<GoodModule>>]]}
    \cup {[kind |-> "json",
           obj |-> [course_title |-> "C", course_description |-> "D", modules |-> ms]] :
          ms \in {<<>>, <<GoodModule>>, <<NoLessonsModule, GoodModule>>,
                 <<GoodModule, BadModule>>}}

\* the outline has every key the population loop reads (views.py:64-76)
OutlineComplete(obj) ==
    /\ Has(obj, "course_title") /\ Has(obj, "course_description") /\ Has(obj, "modules")
    /\ \A i \in DOMAIN obj.modules :
          Has(obj.modules[i], "title") /\ Has(obj.modules[i], "lessons")

LessonCount(obj) ==
    SumTo([i \in DOMAIN obj.modules |-> Len(obj.modules[i].lessons)], Len(obj.modules))

\* the rows of views.py:63-82, ids handed out in creation order
PopulateCourse(u, obj) ==
    LET ms == obj.modules
        before(i) == SumTo([k \in DOMAIN ms |-> Len(ms[k].lessons)], i - 1)
    IN  /\ course' = course \cup {[id |-> nextId.course, created_by |-> u]}
        /\ module' = module \cup
              {[id |-> nextId.module + i - 1, course |-> nextId.course, order |-> i - 1] :
               i \in DOMAIN ms}
        /\ lesson' = lesson \cup
              {[id |-> nextId.lesson + before(ij[1]) + ij[2] - 1,
                module |-> nextId.module + ij[1] - 1,
                order |-> ij[2] - 1,
                content |-> Empty] :
               ij \in {p \in (DOMAIN ms) \X (1 .. Cardinality(LessonIds)) :
                          p[2] <= Len(ms[p[1]].lessons)}}
        /\ nextId' = [nextId EXCEPT !.course = @ + 1,
                                    !.module = @ + Len(ms),
                                    !.lesson = @ + LessonCount(obj)]

CreateCourseStatus(body, ai) ==
    IF ~body.valid THEN 500                                  \* views.py:86-87
    ELSE IF ~Has(body.data, "topic") \/ body.data.topic = "" THEN 400
    ELSE IF ai.kind = "raise" THEN 500
    ELSE IF ai.kind = "text" THEN 500
    ELSE IF ~OutlineComplete(ai.obj) THEN 500                \* KeyError, rolled back
    ELSE 200

create_course(u, body, ai) ==
    LET status == CreateCourseStatus(body, ai) IN
    /\ IF status = 200
       THEN /\ nextId.course <= MaxCourses
            /\ \A k \in 0 .. LessonCount(ai.obj) - 1 : nextId.lesson + k \in LessonIds
            /\ PopulateCourse(u, ai.obj)
            /\ response' = [op |-> "create_course", user |-> u, status |-> 200,
                            course_id |-> nextId.course]
       ELSE /\ UNCHANGED <<course, module, lesson, nextId>>
            /\ response' = [op |-> "create_course", user |-> u, status |-> status]
    /\ UNCHANGED <<quiz, question, choice, progress, attempt, inflight>>

-----------------------------------------------------------------------------
(* delete_course                                                           *)

\* a variant that deletes every course of the requesting user
delete_course_all_mine(u, cid) ==
    IF cid \notin CourseIdsIn(course)
    THEN /\ response' = [op |-> "delete_course", user |-> u, course |-> cid, status |-> 500]
         /\ UNCHANGED <<db, nextId, inflight>>
    ELSE LET c == CHOOSE c \in course : c.id = cid IN
         IF c.created_by # u
         THEN /\ response' = [op |-> "delete_course", user |-> u, course |-> cid,
                              status |-> 403]
              /\ UNCHANGED <<db, nextId, inflight>>
         ELSE /\ CascadeDelete({x.id : x \in {y \in course : y.created_by = u}})
              /\ response' = [op |-> "delete_course", user |-> u, course |-> cid,
                              status |-> 200]
              /\ UNCHANGED <<nextId, inflight>>

\* a variant without the check of views.py:309
delete_course_unchecked(u, cid) ==
    IF cid \notin CourseIdsIn(course)
    THEN /\ response' = [op |-> "delete_course", user |-> u, course |-> cid, status |-> 500]
         /\ UNCHANGED <<db, nextId, inflight>>
    ELSE /\ CascadeDelete({cid})
         /\ response' = [op |-> "delete_course", user |-> u, course |-> cid,
                         status |-> 200]
         /\ UNCHANGED <<nextId, inflight>>

delete_course(u, cid) ==
    IF cid \notin CourseIdsIn(course)
    THEN \* Http404 raised inside the try is caught by `except Exception`
         /\ response' = [op |-> "delete_course", user |-> u, course |-> cid, status |-> 500]
         /\ UNCHANGED <<db, nextId, inflight>>
    ELSE LET c == CHOOSE c \in course : c.id = cid IN
         IF c.created_by # u
         THEN /\ response' = [op |-> "delete_course", user |-> u, course |-> cid,
                              status |-> 403]
              /\ UNCHANGED <<db, nextId, inflight>>
         ELSE /\ CascadeDelete({cid})
              /\ response' = [op |-> "delete_course", user |-> u, course |-> cid,
                              status |-> 200]
              /\ UNCHANGED <<nextId, inflight>>

-----------------------------------------------------------------------------
(* Lesson generation: the part lesson_detail and generate_lesson_content   *)
(* share (views.py:119-159, tasks.py:22-52).                               *)

Generated == "Generated lesson text"

OptionLists == {<<>>, <<"a", "b">>, <<"a", "a">>}
AnswerTexts == {"a", "c"}

Without(obj, key) == [k \in DOMAIN obj \ {key} |-> obj[k]]

FullLessonObjects ==
    [lesson_content : {Generated, Empty}, quiz_question : {"Q"},
     options : OptionLists, answer : AnswerTexts]

SampleLessonObject ==
    [lesson_content |-> Generated, quiz_question |-> "Q",
     options |-> <<"a", "b">>, answer |-> "a"]

\* what the collaborator answers to the lesson prompt: it raises, it answers text
\* that json.loads rejects, or it answers a JSON object, complete or not
LessonAnswers ==
    {[kind |-> "raise"], [kind |-> "text"]}
    \cup {[kind |-> "json", obj |-> o] : o \in FullLessonObjects}
    \cup {[kind |-> "json", obj |-> Without(SampleLessonObject, k)] :
          k \in DOMAIN SampleLessonObject}
    \cup {[kind |-> "json", obj |-> Without([SampleLessonObject EXCEPT !.options = <<>>],
                                            "answer")]}

\* Quiz.lesson is one-to-one: a second Quiz row for a lesson is rejected
QuizCreateRejected(lid) == QuizOfLesson(lid) # {}

\* the try block raises before or inside transaction.atomic(), which then rolls back
GenerationFails(lid, ai) ==
    \/ ai.kind # "json"
    \/ ~Has(ai.obj, "lesson_content")
    \/ ~LessonExists(lid)          \* save() re-inserts a row whose module is gone
    \/ QuizCreateRejected(lid)
    \/ ~Has(ai.obj, "quiz_question")
    \/ ~Has(ai.obj, "options")
    \/ (ai.obj.options # <<>> /\ ~Has(ai.obj, "answer"))

IsCorrect(choice_text, obj) == choice_text = obj.answer

\* the committed transaction: content, quiz, question and one choice per option
GenerationCommit(lid, obj) ==
    /\ lesson' = (lesson \ {LessonRow(lid)})
                    \cup {[LessonRow(lid) EXCEPT !.content = obj.lesson_content]}
    /\ quiz' = quiz \cup {[id |-> nextId.quiz, lesson |-> lid]}
    /\ question' = question \cup {[id |-> nextId.question, quiz |-> nextId.quiz,
                                   order |-> 0]}
    /\ choice' = choice \cup
          {[id |-> nextId.choice + i - 1, question |-> nextId.question,
            choice_text |-> obj.options[i],
            is_correct |-> IsCorrect(obj.options[i], obj)] : i \in DOMAIN obj.options}
    /\ nextId' = [nextId EXCEPT !.quiz = @ + 1, !.question = @ + 1,
                                !.choice = @ + Len(obj.options)]

-----------------------------------------------------------------------------
(* lesson_detail                                                           *)

ProgressRows(u, lid) == {p \in progress : p.user = u /\ p.lesson = lid}

\* UserProgress.objects.get_or_create(user, lesson)
GetOrCreateProgress(u, lid) ==
    IF ProgressRows(u, lid) # {} THEN progress
    ELSE progress \cup {[user |-> u, lesson |-> lid, completed |-> FALSE]}

\* get_object_or_404(Lesson, id, module_id, module__course_id) of views.py:112
LessonAt(cid, mid, lid) ==
    {l \in lesson : /\ l.id = lid /\ l.module = mid
                    /\ \E m \in module : m.id = mid /\ m.course = cid}

DetailResponse(u, lid, status, shown, hasQuiz, gen) ==
    [op |-> "lesson_detail", user |-> u, lesson |-> lid, status |-> status,
     content |-> shown, has_quiz |-> hasQuiz, generation |-> gen]

lesson_detail_begin(u, cid, mid, lid) ==
    IF LessonAt(cid, mid, lid) = {}
    THEN /\ response' = [op |-> "lesson_detail", user |-> u, lesson |-> lid,
                         status |-> 404]
         /\ UNCHANGED <<db, nextId, inflight>>
    ELSE IF LessonRow(lid).content # Empty
    THEN \* content is there: the standard view logic, nothing generated
         /\ progress' = GetOrCreateProgress(u, lid)
         /\ response' = DetailResponse(u, lid, 200, LessonRow(lid).content,
                                       QuizOfLesson(lid) # {}, "none")
         /\ UNCHANGED <<course, module, lesson, quiz, question, choice, attempt,
                        nextId, inflight>>
    ELSE \* the collaborator is called with the lesson in hand
         /\ BagCardinality(inflight) < MaxInFlight
         /\ inflight' = inflight (+) SetToBag({[kind |-> "view", user |-> u,
                                                lesson |-> lid]})
         /\ response' = NoResponse
         /\ UNCHANGED <<db, nextId>>

lesson_detail_finish(req, ai) ==
    LET lid == req.lesson
        failed == GenerationFails(lid, ai)
    IN  /\ req.kind = "view"
        /\ BagIn(req, inflight)
        /\ inflight' = inflight (-) SetToBag({req})
        /\ IF failed
           THEN UNCHANGED <<lesson, quiz, question, choice, nextId>>
           ELSE GenerationCommit(lid, ai.obj)
        /\ IF LessonExists(lid)
           THEN /\ progress' = GetOrCreateProgress(req.user, lid)
                /\ response' = DetailResponse(req.user, lid, 200,
                                   IF failed THEN FailedMessage
                                   ELSE ai.obj.lesson_content,
                                   ~failed \/ QuizOfLesson(lid) # {},
                                   IF failed THEN "failed" ELSE "ok")
           ELSE \* the progress row would point at a deleted lesson: IntegrityError
                /\ progress' = progress
                /\ response' = [op |-> "lesson_detail", user |-> req.user,
                                lesson |-> lid, status |-> 500]
        /\ UNCHANGED <<course, module, attempt>>

-----------------------------------------------------------------------------
(* generate_lesson_content (tasks.py)                                      *)

TaskResponse(lid, result) ==
    [op |-> "generate_lesson_content", lesson |-> lid, result |-> result]

generate_lesson_content_begin(lid) ==
    IF ~LessonExists(lid)
    THEN /\ response' = TaskResponse(lid, "not found")
         /\ UNCHANGED <<db, nextId, inflight>>
    ELSE IF LessonRow(lid).content # Empty
    THEN /\ response' = TaskResponse(lid, "already has content")
         /\ UNCHANGED <<db, nextId, inflight>>
    ELSE /\ BagCardinality(inflight) < MaxInFlight
         /\ inflight' = inflight (+) SetToBag({[kind |-> "task", user |-> "worker",
                                                lesson |-> lid]})
         /\ response' = NoResponse
         /\ UNCHANGED <<db, nextId>>

generate_lesson_content_finish(req, ai) ==
    LET lid == req.lesson
        failed == GenerationFails(lid, ai)
    IN  /\ req.kind = "task"
        /\ BagIn(req, inflight)
        /\ inflight' = inflight (-) SetToBag({req})
        /\ IF ~failed
           THEN /\ GenerationCommit(lid, ai.obj)
                /\ response' = TaskResponse(lid, "success")
           ELSE IF LessonExists(lid)
           THEN \* tasks.py:58-60: the lesson is read again and the message saved
                /\ lesson' = (lesson \ {LessonRow(lid)})
                       \cup {[LessonRow(lid) EXCEPT !.content = TaskErrorMessage]}
                /\ response' = TaskResponse(lid, "failed")
                /\ UNCHANGED <<quiz, question, choice, nextId>>
           ELSE \* Lesson.DoesNotExist raised inside the handler itself
                /\ response' = TaskResponse(lid, "raised")
                /\ UNCHANGED <<lesson, quiz, question, choice, nextId>>
        /\ UNCHANGED <<course, module, progress, attempt>>

-----------------------------------------------------------------------------
(* submit_quiz                                                             *)

PassMark == 70

Digits == <<"0", "1", "2", "3", "4", "5", "6", "7", "8", "9">>
DigitValue(ch) == CHOOSE d \in 0 .. 9 : Digits[d + 1] = ch

\* str(n) of views.py:226, for an id n >= 0
RECURSIVE Str(_)
Str(n) == IF n < 10 THEN <<Digits[n + 1]>>
          ELSE Append(Str(n \div 10), Digits[(n % 10) + 1])

\* the key is accepted as an id by the lookup id=question_id (int() of the field)
IsNumber(s) == s # <<>> /\ \A i \in DOMAIN s : \E d \in 0 .. 9 : Digits[d + 1] = s[i]

RECURSIVE ToInt(_)
ToInt(s) == IF Len(s) = 1 THEN DigitValue(s[1])
            ELSE 10 * ToInt(SubSeq(s, 1, Len(s) - 1)) + DigitValue(s[Len(s)])

QuestionsOfQuiz(qz) == {q \in question : q.quiz = qz}
CorrectChoices(qid) == {c \in choice : c.question = qid /\ c.is_correct}

\* Question.objects.get(id=question_id, quiz=quiz) of views.py:224
QuestionFor(key, qz) == {q \in question : q.id = ToInt(key) /\ q.quiz = qz}

\* the loop of views.py:222-229 raises what its inner except does not catch:
\* ValueError for a key that is no number, MultipleObjectsReturned for a
\* question with several correct choices
LoopRaises(items, qz) ==
    \E key \in DOMAIN items :
        \/ ~IsNumber(key)
        \/ \E q \in QuestionFor(key, qz) : Cardinality(CorrectChoices(q.id)) > 1

\* one answer adds to correct_answers (views.py:224-227)
CountsAsCorrect(key, value, qz) ==
    \E q \in QuestionFor(key, qz) :
        \E c \in CorrectChoices(q.id) : value = [str |-> Str(c.id)]

CorrectAnswers(items, qz) ==
    Cardinality({key \in DOMAIN items : CountsAsCorrect(key, items[key], qz)})

\* views.py:231, as the fraction num/den
Score(correct, total) ==
    IF total > 0 THEN [num |-> 100 * correct, den |-> total]
    ELSE [num |-> 0, den |-> 1]

Passing(score) == score.num >= PassMark * score.den

\* UserProgress.objects.update_or_create(user, lesson, defaults={'completed': True})
CompleteProgress(u, lid) ==
    (progress \ ProgressRows(u, lid))
        \cup {[user |-> u, lesson |-> lid, completed |-> TRUE]}

\* a variant that keeps one row per (user, quiz), as update_or_create would
RecordAttemptLatestOnly(u, qz, score) ==
    Append(SelectSeq(attempt, LAMBDA a : ~(a.user = u /\ a.quiz = qz)),
           [user |-> u, quiz |-> qz, score |-> score])

\* views.py:234-238
RecordAttempt(u, qz, score) ==
    Append(attempt, [user |-> u, quiz |-> qz, score |-> score])

\* a variant that writes the outcome of every submission into the row
SubmitProgressEveryOutcome(u, lid, score) ==
    (progress \ ProgressRows(u, lid))
        \cup {[user |-> u, lesson |-> lid, completed |-> Passing(score)]}

\* views.py:241-246
SubmitProgress(u, lid, score) ==
    IF Passing(score) THEN CompleteProgress(u, lid) ELSE progress

SubmitError(u, qz) ==
    [op |-> "submit_quiz", user |-> u, quiz |-> qz, status |-> 400, success |-> FALSE]

\* data.get('answers', {}) of views.py:216
AnswersOf(data) ==
    IF Has(data, "answers") THEN data.answers ELSE [kind |-> "object", items |-> <<>>]

submit_quiz(u, qz, body) ==
    IF \/ ~body.valid
       \/ \A z \in quiz : z.id # qz
       \/ AnswersOf(body.data).kind # "object"
       \/ LoopRaises(AnswersOf(body.data).items, qz)
    THEN /\ response' = SubmitError(u, qz)
         /\ UNCHANGED <<db, nextId, inflight>>
    ELSE LET items == AnswersOf(body.data).items
             total == Cardinality(QuestionsOfQuiz(qz))
             correct == CorrectAnswers(items, qz)
             score == Score(correct, total)
             z == CHOOSE z \in quiz : z.id = qz
         IN  /\ Len(attempt) < MaxAttempts
             /\ attempt' = RecordAttempt(u, qz, score)
             /\ progress' = SubmitProgress(u, z.lesson, score)
             /\ response' = [op |-> "submit_quiz", user |-> u, quiz |-> qz,
                             status |-> 200, success |-> TRUE, score |-> score,
                             correct_answers |-> correct, total_questions |-> total,
                             passed |-> Passing(score)]
             /\ UNCHANGED <<course, module, lesson, quiz, question, choice, nextId,
                            inflight>>

-----------------------------------------------------------------------------
(* mark_lesson_complete                                                    *)

mark_lesson_complete(u, lid) ==
    IF ~LessonExists(lid)
    THEN /\ response' = [op |-> "mark_lesson_complete", user |-> u, lesson |-> lid,
                         status |-> 404]
         /\ UNCHANGED <<db, nextId, inflight>>
    ELSE /\ progress' = CompleteProgress(u, lid)
         /\ response' = [op |-> "mark_lesson_complete", user |-> u, lesson |-> lid,
                         status |-> 302]
         /\ UNCHANGED <<course, module, lesson, quiz, question, choice, attempt,
                        nextId, inflight>>

-----------------------------------------------------------------------------
(* ai_assistant                                                            *)

\* str.strip() on the messages of the model
Strip(s) == IF s = " " THEN "" ELSE s

AssistantBodies(lids) ==
    {InvalidJson, JsonBody(<<>>)}
    \cup {JsonBody([message |-> m, context |-> [lesson_id |-> lid]]) :
          m \in {"", " ", "hi"}, lid \in lids}
    \cup {JsonBody([context |-> [lesson_id |-> lid]]) : lid \in lids}
    \cup {JsonBody([message |-> "hi"]), JsonBody([message |-> "hi", context |-> <<>>])}

AssistantStatus(body, ai) ==
    IF ~body.valid THEN 400                                   \* views.py:297-298
    ELSE LET data == body.data
             message == Strip(IF Has(data, "message") THEN data.message ELSE "")
             context == IF Has(data, "context") THEN data.context ELSE <<>>
             hasId == Has(context, "lesson_id") /\ context.lesson_id # 0
         IN  IF message = "" \/ ~hasId THEN 400
             ELSE IF ~LessonExists(context.lesson_id) THEN 500  \* Http404 caught
             ELSE IF ai.kind = "raise" THEN 500
             ELSE 200

ai_assistant(u, body, ai) ==
    /\ response' = [op |-> "ai_assistant", user |-> u,
                    status |-> AssistantStatus(body, ai)]
    /\ UNCHANGED <<db, nextId, inflight>>

-----------------------------------------------------------------------------

\* inputs of the course life cycle
Viewers == {"u1"}
\* create_course reads the collaborator's answer only for a body with a topic
CourseRequests ==
    {<<u, JsonBody([topic |-> "T"]), ai>> : u \in Users, ai \in CourseAnswers}
    \cup {<<u, body, [kind |-> "text"]>> : u \in Viewers, body \in CourseBodies}
\* URLs of lesson_detail: every lesson under its module and any course id, and
\* one URL of a lesson that need not exist
LessonPaths ==
    {<<cid, l.module, l.id>> : cid \in 1 .. MaxCourses, l \in lesson} \cup {<<1, 1, 1>>}
LifecycleLessonAnswers == {[kind |-> "raise"], [kind |-> "json", obj |-> SampleLessonObject]}

Init ==
    /\ course = {} /\ module = {} /\ lesson = {}
    /\ quiz = {} /\ question = {} /\ choice = {}
    /\ progress = {} /\ attempt = <<>>
    /\ nextId = [course |-> 1, module |-> 1, lesson |-> 1, quiz |-> 1,
                 question |-> 1, choice |-> 1]
    /\ inflight = EmptyBag
    /\ response = NoResponse

CreateCourse == \E r \in CourseRequests : create_course(r[1], r[2], r[3])
DeleteCourse == \E u \in Users, cid \in 1 .. MaxCourses : delete_course(u, cid)

LessonDetailBegin ==
    \E u \in Viewers, path \in LessonPaths :
        lesson_detail_begin(u, path[1], path[2], path[3])
LessonDetailFinish ==
    \E req \in BagToSet(inflight), ai \in LifecycleLessonAnswers :
        lesson_detail_finish(req, ai)
AiAssistant ==
    \E u \in Viewers, body \in AssistantBodies(LessonIds), ai \in {[kind |-> "raise"], [kind |-> "text"]} :
        ai_assistant(u, body, ai)

\* the life cycle sees submit_quiz only with a body that is no JSON; SpecScore
\* below is where quizzes are submitted
MalformedSubmit ==
    \E u \in Viewers, qz \in 1 .. 2 : submit_quiz(u, qz, InvalidJson)

Next == CreateCourse \/ DeleteCourse \/ LessonDetailBegin \/ LessonDetailFinish
           \/ AiAssistant \/ MalformedSubmit

Spec == Init /\ [][Next]_vars

-----------------------------------------------------------------------------
(* Generation alone: a course as create_course leaves it, one module with  *)
(* two lessons, and every answer of the collaborator.                      *)

GenViewers == {"u1"}

InitGen ==
    /\ course = {[id |-> 1, created_by |-> "u1"]}
    /\ module = {[id |-> 1, course |-> 1, order |-> 0]}
    /\ lesson = {[id |-> i, module |-> 1, order |-> i - 1, content |-> Empty] :
                    i \in LessonIds}
    /\ quiz = {} /\ question = {} /\ choice = {}
    /\ progress = {} /\ attempt = <<>>
    /\ nextId = [course |-> 2, module |-> 2, lesson |-> Cardinality(LessonIds) + 1,
                 quiz |-> 1, question |-> 1, choice |-> 1]
    /\ inflight = EmptyBag
    /\ response = NoResponse

GenDetailBegin ==
    \E u \in GenViewers, lid \in LessonIds : lesson_detail_begin(u, 1, 1, lid)
GenDetailFinish ==
    \E req \in BagToSet(inflight), ai \in LessonAnswers : lesson_detail_finish(req, ai)
GenTaskBegin ==
    \E lid \in LessonIds \cup {Cardinality(LessonIds) + 1} :
        generate_lesson_content_begin(lid)
GenTaskFinish ==
    \E req \in BagToSet(inflight), ai \in LessonAnswers :
        generate_lesson_content_finish(req, ai)

NextGen == GenDetailBegin \/ GenDetailFinish \/ GenTaskBegin \/ GenTaskFinish

SpecGen == InitGen /\ [][NextGen]_vars

-----------------------------------------------------------------------------
(* Quizzes and progress: a store that holds generated lessons and quizzes  *)
(* of several questions (Question rows are also written through the admin  *)
(* site), and the handlers that score and record.                          *)

\* the quiz submitted to, its lesson, and the other quiz of the store
SeedIds == [quiz |-> 5, lesson |-> 2, otherQuiz |-> 6, otherLesson |-> 1,
            otherQuestion |-> 9, missingQuiz |-> 7]
TheQuiz == SeedIds.quiz
TheLesson == SeedIds.lesson
OtherQuiz == SeedIds.otherQuiz
OtherLesson == SeedIds.otherLesson
OtherQuestion == SeedIds.otherQuestion
MissingQuiz == SeedIds.missingQuiz

\* is_correct of the two choices of a question
ChoiceFlags == {<<TRUE, FALSE>>, <<FALSE, FALSE>>, <<TRUE, TRUE>>}
\* the questions of TheQuiz, by their choices' flags; question i has id i
SeedQuizzes ==
    {<<>>} \cup {<<f>> : f \in ChoiceFlags}
           \cup {<<f, g>> : f \in {<<TRUE, FALSE>>}, g \in ChoiceFlags}

ChoiceId(qid, i) == 10 * qid + i

SeedChoices(qid, flags) ==
    {[id |-> ChoiceId(qid, i), question |-> qid, choice_text |-> Digits[i + 1],
      is_correct |-> flags[i]] : i \in DOMAIN flags}

InitScore ==
    \E seed \in SeedQuizzes :
    /\ course = {[id |-> 1, created_by |-> "u1"]}
    /\ module = {[id |-> 1, course |-> 1, order |-> 0]}
    /\ lesson = {[id |-> i, module |-> 1, order |-> i - 1, content |-> Generated] :
                    i \in {OtherLesson, TheLesson}}
    /\ quiz = {[id |-> TheQuiz, lesson |-> TheLesson],
               [id |-> OtherQuiz, lesson |-> OtherLesson]}
    /\ question = {[id |-> i, quiz |-> TheQuiz, order |-> i - 1] : i \in DOMAIN seed}
                   \cup {[id |-> OtherQuestion, quiz |-> OtherQuiz, order |-> 0]}
    /\ choice = UNION {SeedChoices(i, seed[i]) : i \in DOMAIN seed}
                   \cup SeedChoices(OtherQuestion, <<TRUE, FALSE>>)
    /\ progress = {} /\ attempt = <<>>
    /\ nextId = [course |-> 2, module |-> 2, lesson |-> 3, quiz |-> 8,
                 question |-> 10, choice |-> 100]
    /\ inflight = EmptyBag
    /\ response = NoResponse

\* keys and values of the submitted answers object
RawKeys == {Str(1), <<"0", "1">>, Str(2), Str(OtherQuestion), <<"x">>}
RawValues == {[str |-> Str(ChoiceId(1, 1))], [str |-> Str(ChoiceId(2, 1))],
              [num |-> ChoiceId(1, 1)]}
MaxAnswers == 2

AnswerObjects ==
    UNION {[keys -> RawValues] : keys \in {k \in SUBSET RawKeys : Cardinality(k) <= MaxAnswers}}

SubmitBodies ==
    {InvalidJson, JsonBody(<<>>), JsonBody([answers |-> [kind |-> "array"]])}
    \cup {JsonBody([answers |-> [kind |-> "object", items |-> a]]) : a \in AnswerObjects}

ScoreUsers == {"u1", "u2"}
Submitters == {"u1"}

SubmitQuiz ==
    \E u \in Submitters :
        \/ \E body \in SubmitBodies : submit_quiz(u, TheQuiz, body)
        \/ submit_quiz(u, MissingQuiz, JsonBody(<<>>))
ScoreLessonDetail ==
    \E u \in ScoreUsers, lid \in {TheLesson, 3} : lesson_detail_begin(u, 1, 1, lid)
MarkLessonComplete ==
    \E u \in ScoreUsers, lid \in {TheLesson, 3} : mark_lesson_complete(u, lid)

NextScore == SubmitQuiz \/ ScoreLessonDetail \/ MarkLessonComplete

SpecScore == InitScore /\ [][NextScore]_vars

-----------------------------------------------------------------------------
(* Quiz submission (checked under SpecScore).                              *)

IsSubmit(r) == r.op = "submit_quiz"

\* the number of questions of the quiz whose submitted choice is the stored
\* correct choice, counted per question as the claim counts it
QuestionsAnsweredCorrectly(items, qz) ==
    Cardinality({q \in QuestionsOfQuiz(qz) :
        \E key \in DOMAIN items :
            /\ IsNumber(key) /\ ToInt(key) = q.id
            /\ \E c \in CorrectChoices(q.id) : items[key] = [str |-> Str(c.id)]})

\* C1: for every quiz and every submitted answers mapping, the score submit_quiz
\* returns is 100 * correct / total, correct being the number of questions of
\* the quiz answered with their stored correct choice; it is 0 for a quiz
\* without questions and always lies between 0 and 100.
C1_ScoreIsShareOfQuestions ==
    [][\A u \in Submitters, body \in SubmitBodies :
          (submit_quiz(u, TheQuiz, body) /\ response'.success) =>
              LET total == Cardinality(QuestionsOfQuiz(TheQuiz))
                  correct == QuestionsAnsweredCorrectly(AnswersOf(body.data).items,
                                                        TheQuiz)
                  score == response'.score
              IN  /\ score.num * (IF total = 0 THEN 1 ELSE total)
                        = (IF total = 0 THEN 0 ELSE 100 * correct) * score.den
                  /\ 0 <= score.num /\ score.num <= 100 * score.den]_vars

ProgressKey(p) == <<p.user, p.lesson>>

-----------------------------------------------------------------------------
(* Lesson generation (checked under SpecGen).                              *)

QuizRowsOf(lid, zs, qs, cs) ==
    LET z == {x \in zs : x.lesson = lid}
        q == {x \in qs : x.quiz \in {y.id : y \in z}}
    IN  <<z, q, {x \in cs : x.question \in {y.id : y \in q}}>>

\* the step starts a generation attempt for lesson lid
StartsAttempt(lid) ==
    \E req \in BagToSet(inflight') :
        req.lesson = lid /\ CopiesIn(req, inflight') > CopiesIn(req, inflight)

\* the step is the arrival of a request or a task delivery, not the completion
\* of an attempt that was waiting for the collaborator
IsArrival ==
    \A req \in BagToSet(inflight) : CopiesIn(req, inflight') >= CopiesIn(req, inflight)

\* C4: for a lesson whose content is empty, whatever the interleaving of
\* lesson_detail requests and task deliveries, the stored content is written
\* once: when an attempt has committed its generated content and quiz, no other
\* attempt overwrites the content (with other generated content or with an
\* error message) and no second quiz is created.
C4_ContentCommittedOnce ==
    [][\A l \in lesson :
          (l.content # Empty /\ QuizOfLesson(l.id) # {}) =>
              /\ l \in lesson'
              /\ Cardinality({z \in quiz' : z.lesson = l.id}) = 1]_vars

\* The check of views.py:117 and tasks.py:19 by itself: while a lesson's stored
\* content is non-empty, a lesson_detail request or a task delivery for it does
\* not call the collaborator and leaves the lesson's content and its quiz,
\* question and choice rows as they are.
NoGenerationOverContent ==
    [][IsArrival =>
          \A l \in lesson :
              l.content # Empty =>
                  /\ ~StartsAttempt(l.id)
                  /\ l \in lesson'
                  /\ QuizRowsOf(l.id, quiz', question', choice')
                        = QuizRowsOf(l.id, quiz, question, choice)]_vars

RunCompleted(r) ==
    \/ r.op = "generate_lesson_content" /\ r.result \in {"success", "failed"}
    \/ r.op = "lesson_detail" /\ r.status = 200 /\ r.generation = "ok"

C9_FailedGenerationLeavesNothing ==
    (response.op = "lesson_detail" /\ Has(response, "generation")
        /\ response.generation = "failed") =>
        /\ response.status = 200
        /\ response.content = FailedMessage
        /\ LessonRow(response.lesson).content = Empty
        /\ QuizOfLesson(response.lesson) = {}

\* the texts generation can store as a lesson's content
GeneratedContents == {o.lesson_content : o \in FullLessonObjects}

\* no lesson has two quizzes
OneQuizPerLesson == \A l \in lesson : Cardinality(QuizOfLesson(l.id)) <= 1

\* every quiz has its one question, and the question one choice per option of
\* some list of options
QuizzesAreWhole ==
    \A z \in quiz :
        LET qs == {q \in question : q.quiz = z.id}
        IN  /\ Cardinality(qs) = 1
            /\ \A q \in qs :
                  LET cs == {c \in choice : c.question = q.id}
                  IN  \E o \in OptionLists :
                         /\ Cardinality(cs) = Len(o)
                         /\ {c.choice_text : c \in cs} = {o[i] : i \in DOMAIN o}

\* C11: in every state that runs of lesson_detail and generate_lesson_content
\* reach, failed runs included, a lesson has at most one quiz, a lesson with
\* a quiz stores the generated content, and every quiz has its question with
\* all of the question's choices.
C11_ContentAndQuizTogether ==
    /\ OneQuizPerLesson
    /\ \A l \in lesson : QuizOfLesson(l.id) # {} => l.content \in GeneratedContents
    /\ QuizzesAreWhole

\* C10: every question that generation creates has exactly one choice marked
\* correct, whatever options and answer the collaborator returns.
C10_OneCorrectChoice ==
    \A q \in question : Cardinality(CorrectChoices(q.id)) = 1

-----------------------------------------------------------------------------
(* Course life cycle (checked under Spec).                                 *)

IsDelete(r) == r.op = "delete_course"

\* C6: a successful delete_course removes the course and every module, lesson,
\* quiz, question and choice under it, and leaves the rows of other courses.
C6_DeleteCascades ==
    [][(IsDelete(response') /\ response'.status = 200) =>
          LET cid == response'.course
              ms == {m \in module : m.course # cid}
              ls == {l \in lesson : l.module \in {m.id : m \in ms}}
              zs == {z \in quiz : z.lesson \in {l.id : l \in ls}}
              qs == {q \in question : q.quiz \in {z.id : z \in zs}}
              cs == {c \in choice : c.question \in {q.id : q \in qs}}
          IN  /\ cid \in CourseIdsIn(course)
              /\ course' = {c \in course : c.id # cid}
              /\ module' = ms /\ lesson' = ls /\ quiz' = zs
              /\ question' = qs /\ choice' = cs]_vars

\* a course with a generated quiz was deleted while another course keeps its
\* lesson and quiz
C6_Witness ==
    /\ IsDelete(response) /\ response.status = 200
    /\ nextId.quiz = 3 /\ Cardinality(quiz) = 1 /\ Cardinality(choice) = 2
    /\ Cardinality(course) = 1

\* C7: delete_course requested by a user who is not the creator answers 403
\* and changes no row; a course disappears only in a delete_course request of
\* its creator.
C7_OnlyCreatorDeletes ==
    [][/\ IsDelete(response') =>
             \A c \in course :
                 (c.id = response'.course /\ c.created_by # response'.user) =>
                     response'.status = 403 /\ UNCHANGED db
       /\ \A c \in course :
             c \notin course' =>
                 /\ IsDelete(response') /\ response'.status = 200
                 /\ response'.course = c.id /\ response'.user = c.created_by]_vars

\* a refused delete of a course that has a lesson
C7_Witness ==
    /\ IsDelete(response) /\ response.status = 403
    /\ LessonsOfCourse(response.course) # {}

MalformedCourseBody(body) == ~body.valid \/ ~Has(body.data, "topic")
MalformedAssistantBody(body) ==
    \/ ~body.valid
    \/ ~Has(body.data, "message")
    \/ ~Has(body.data, "context")
    \/ ~Has(body.data.context, "lesson_id")

\* C8: create_course, submit_quiz and ai_assistant answer a body that is no
\* valid JSON, or that lacks a required field, with status 400, and change no
\* row.
C8_MalformedInputIs400 ==
    [][/\ \A u \in Users, body \in CourseBodies, ai \in CourseAnswers :
             (MalformedCourseBody(body) /\ create_course(u, body, ai)) =>
                 response'.status = 400 /\ UNCHANGED db
       /\ \A u \in Viewers, body \in AssistantBodies(LessonIds) :
             (MalformedAssistantBody(body) /\ ai_assistant(u, body, [kind |-> "text"])) =>
                 response'.status = 400 /\ UNCHANGED db
       /\ \A u \in Viewers, qz \in 1 .. 2 :
             submit_quiz(u, qz, InvalidJson) =>
                 response'.status = 400 /\ UNCHANGED db]_vars
====
